---- MODULE Spec2Model ----
(***************************************************************************)
(* A model of rst_formatter (src/src/rst_formatter.py): the text           *)
(* normalisation passes of format_rst, the rendering visitor               *)
(* RstTranslator, and the process-global directive patch.                  *)
(*                                                                         *)
(* Text is a sequence of one-character strings; a Python list of strings   *)
(* is a sequence of such sequences.                                        *)
(***************************************************************************)
EXTENDS Integers, Sequences, FiniteSets, TLC

VARIABLES
    module,     \* which of the repository's two rst_formatter modules is imported
    cfg,        \* RstFormatterConfig of the run
    norig,      \* normaliser run: the text given
    ntext,      \* normaliser run: the text as rewritten so far
    nstage,     \* normaliser run: which substitution ran last
    nfirst,     \* normaliser run: the result of the first complete pre-pass
    npass,      \* normaliser run: number of complete pre-passes
    tr,         \* RstTranslator: the visitor's fields
    stack,      \* walkabout: the nodes entered and not yet left, outermost first
    last,       \* walkabout: the handler that ran last, and the node it ran on
    visited,    \* walkabout: number of nodes entered below the document
    returned,   \* RstFormattingWriter.translate has stored its output
    result,     \* RstFormattingWriter.output
    prev,       \* history: the title or directive rendered last, until a word follows it
    fmt,        \* format_rst: the call's argument, its position, its locals
    glob,       \* directives._directives and Body.parse_directive_block
    thr,        \* per thread: its position in format_rst and its locals
    dir,        \* a directive on its way through the renderer and the capture adapter
    cli         \* main: the file, the arguments and the return codes of its runs

normVars == <<norig, ntext, nstage, nfirst, npass>>
walkVars == <<tr, stack, last, visited, returned, result, prev>>
callVars == <<fmt>>
concVars == <<glob, thr>>
toolVars == <<dir, cli>>
vars == <<module, cfg, normVars, walkVars, callVars, concVars, toolVars>>

(***************************************************************************)
(* Bounds of the model.                                                    *)
(***************************************************************************)
MaxTextLen == 5
MaxNodes == 6       \* most nodes of a rendered tree below its document
MaxDepth == 5
MaxWidth == 7
MaxThreads == 2
MaxRuns == 3        \* most runs of main on one file
MaxCalls == 5       \* most calls of append and of the hold-space methods

(***************************************************************************)
(* Characters and strings.                                                 *)
(***************************************************************************)
\* src/rst_formatter.py, the packaged module, and rst_formatter.py, the older
\* copy at the top of the repository
Packaged == "src/rst_formatter.py"
Older == "rst_formatter.py"

Imported(new, old) == IF module = Older THEN old ELSE new

NL == "\n"
SP == " "

RECURSIVE Rep(_, _)
Rep(c, n) == IF n <= 0 THEN <<>> ELSE <<c>> \o Rep(c, n - 1)

RECURSIVE Flatten(_)
Flatten(frags) == IF frags = <<>> THEN <<>> ELSE Head(frags) \o Flatten(Tail(frags))

RECURSIVE JoinWith(_, _)
JoinWith(sep, strs) ==
    IF strs = <<>> THEN <<>>
    ELSE IF Len(strs) = 1 THEN strs[1]
    ELSE strs[1] \o sep \o JoinWith(sep, Tail(strs))

StringsUpTo(alphabet, n) == UNION {[1..k -> alphabet] : k \in 0..n}

\* Python's \s restricted to the characters of the model's alphabets
IsSpace(c) == c \in {SP, NL}

\* the first index >= i of s that holds no whitespace (Len(s)+1 if none)
RECURSIVE SkipSpace(_, _)
SkipSpace(s, i) == IF i <= Len(s) /\ IsSpace(s[i]) THEN SkipSpace(s, i + 1) ELSE i

(***************************************************************************)
(* RstFormatterConfig                                                      *)
(***************************************************************************)
DefaultTitleOrder == << <<"=", "=">>, <<"=">>, <<"-">> >>

TitleChars(c) == UNION {{c.title_order[i][j] : j \in 1..Len(c.title_order[i])} : i \in 1..Len(c.title_order)}

(***************************************************************************)
(* format_rst, line 416: re.sub(r":\n(\s*[-*] )", r":\n\n\1", input_rst).  *)
(* The greedy \s* takes the whole whitespace run, newlines included: the   *)
(* bullet class holds no whitespace, so no shorter run can match.          *)
(***************************************************************************)
BulletMatchAt(s, i) ==
    /\ i + 1 <= Len(s)
    /\ s[i] = ":"
    /\ s[i + 1] = NL
    /\ LET k == SkipSpace(s, i + 2)
       IN  k + 1 <= Len(s) /\ s[k] \in {"-", "*"} /\ s[k + 1] = SP

RECURSIVE BulletSubFrom(_, _)
BulletSubFrom(s, i) ==
    IF i > Len(s) THEN <<>>
    ELSE IF BulletMatchAt(s, i)
         THEN LET e == SkipSpace(s, i + 2) + 1
              IN  <<":", NL, NL>> \o SubSeq(s, i + 2, e) \o BulletSubFrom(s, e + 1)
         ELSE <<s[i]>> \o BulletSubFrom(s, i + 1)

InsertBulletNewline(s) == BulletSubFrom(s, 1)

(***************************************************************************)
(* format_rst, line 419: re.sub(r"([^\n])(\n.. )", r"\1\n\2", input_rst).  *)
(* The two dots are unescaped: each matches any character but a newline.   *)
(***************************************************************************)
DirectiveMatchAt(s, i) ==
    /\ i + 4 <= Len(s)
    /\ s[i] # NL
    /\ s[i + 1] = NL
    /\ s[i + 2] # NL
    /\ s[i + 3] # NL
    /\ s[i + 4] = SP

RECURSIVE DirectiveSubFrom(_, _)
DirectiveSubFrom(s, i) ==
    IF i > Len(s) THEN <<>>
    ELSE IF DirectiveMatchAt(s, i)
         THEN <<s[i], NL>> \o SubSeq(s, i + 1, i + 4) \o DirectiveSubFrom(s, i + 5)
         ELSE <<s[i]>> \o DirectiveSubFrom(s, i + 1)

InsertDirectiveNewline(s) == DirectiveSubFrom(s, 1)

(***************************************************************************)
(* fix_heading_line_length: ^([CHARS]){3,}$ with re.MULTILINE, replaced by *)
(* four times group 1, which holds the last character the group matched.   *)
(***************************************************************************)
\* the first index >= i of s that holds no heading character
RECURSIVE SkipHeading(_, _, _)
SkipHeading(s, i, chars) ==
    IF i <= Len(s) /\ s[i] \in chars THEN SkipHeading(s, i + 1, chars) ELSE i

HeadingMatchAt(s, i, chars) ==
    /\ i = 1 \/ s[i - 1] = NL
    /\ LET e == SkipHeading(s, i, chars)
       IN  e - i >= 3 /\ (e > Len(s) \/ s[e] = NL)

RECURSIVE HeadingSubFrom(_, _, _)
HeadingSubFrom(s, i, chars) ==
    IF i > Len(s) THEN <<>>
    ELSE IF HeadingMatchAt(s, i, chars)
         THEN LET e == SkipHeading(s, i, chars)
              IN  Rep(s[e - 1], 4) \o HeadingSubFrom(s, e, chars)
         ELSE <<s[i]>> \o HeadingSubFrom(s, i + 1, chars)

fix_heading_line_length(s, c) == HeadingSubFrom(s, 1, TitleChars(c))

(***************************************************************************)
(* format_rst, line 454: re.sub(r":\n\n(\s*[-*] )", r":\n\1", out)         *)
(***************************************************************************)
CollapseMatchAt(s, i) ==
    /\ i + 2 <= Len(s)
    /\ s[i] = ":"
    /\ s[i + 1] = NL
    /\ s[i + 2] = NL
    /\ LET k == SkipSpace(s, i + 3)
       IN  k + 1 <= Len(s) /\ s[k] \in {"-", "*"} /\ s[k + 1] = SP

RECURSIVE CollapseSubFrom(_, _)
CollapseSubFrom(s, i) ==
    IF i > Len(s) THEN <<>>
    ELSE IF CollapseMatchAt(s, i)
         THEN LET e == SkipSpace(s, i + 3) + 1
              IN  <<":", NL>> \o SubSeq(s, i + 3, e) \o CollapseSubFrom(s, e + 1)
         ELSE <<s[i]>> \o CollapseSubFrom(s, i + 1)

\* the substitution without \s*: r":\n\n([-*] )"
RECURSIVE MutCollapseSubFrom(_, _)
MutCollapseSubFrom(s, i) ==
    IF i > Len(s) THEN <<>>
    ELSE IF /\ i + 4 <= Len(s)
            /\ s[i] = ":" /\ s[i + 1] = NL /\ s[i + 2] = NL
            /\ s[i + 3] \in {"-", "*"} /\ s[i + 4] = SP
         THEN <<":", NL>> \o SubSeq(s, i + 3, i + 4) \o MutCollapseSubFrom(s, i + 5)
         ELSE <<s[i]>> \o MutCollapseSubFrom(s, i + 1)

MutRemoveBulletNewline(s) == MutCollapseSubFrom(s, 1)

RemoveBulletNewline(s) == CollapseSubFrom(s, 1)

\* format_rst, line 455: out.lstrip("\n").rstrip("\n")
RECURSIVE LStripNL(_)
LStripNL(s) == IF s # <<>> /\ Head(s) = NL THEN LStripNL(Tail(s)) ELSE s

RECURSIVE RStripNL(_)
RStripNL(s) == IF s # <<>> /\ s[Len(s)] = NL THEN RStripNL(SubSeq(s, 1, Len(s) - 1)) ELSE s

StripNewlines(s) == RStripNL(LStripNL(s))

(***************************************************************************)
(* RstTranslator.  tr holds the visitor's fields; raised names the         *)
(* exception a handler raised ("none" while the walk goes on).  A handler  *)
(* is an operator from the fields before it to the fields after it; once   *)
(* an exception is raised the rest of the handler does not run.            *)
(***************************************************************************)
TrInit ==
    [output |-> <<>>,
     hold_space |-> <<>>,
     line_length |-> 0,
     indent_level |-> 0,
     section_depth |-> 0,
     bullet_char |-> <<>>,
     need_newline_before_paragraph_start |-> FALSE,
     raised |-> "none"]

Raise(t, exc) == IF t.raised = "none" THEN [t EXCEPT !.raised = exc] ELSE t

\* self.indent * self.indent_level, with self.indent = "  "
Indent(t) == Rep(SP, 2 * t.indent_level)

\* append, lines 168-170: self.output.append("\n" * newlines); self.line_length = 0
EmitNewlines(t, newlines) ==
    [t EXCEPT !.output = Append(@, Rep(NL, newlines)), !.line_length = 0]

\* WrapWord with the separating space left out of the fit test
MutWrapWordNoSpace(t, word) ==
    IF word = <<>> THEN t
    ELSE LET t1 == IF t.line_length + Len(word) > cfg.max_line_length
                   THEN EmitNewlines(t, 1)
                   ELSE t
         IN  IF t1.line_length = 0
             THEN [t1 EXCEPT !.line_length = @ + Len(Indent(t1)) + Len(word),
                             !.output = @ \o <<Indent(t1), word>>]
             ELSE [t1 EXCEPT !.line_length = @ + 1 + Len(word),
                             !.output = IF word[1] \in {",", "."}
                                        THEN @ \o <<word>>
                                        ELSE @ \o <<<<SP>>, word>>]

\* _append_word_wrap, lines 149-161, for one word
WrapWord(t, word) ==
    IF word = <<>> THEN t
    ELSE LET t1 == IF t.line_length + 1 + Len(word) > cfg.max_line_length
                   THEN EmitNewlines(t, 1)
                   ELSE t
         IN  IF t1.line_length = 0
             THEN [t1 EXCEPT !.line_length = @ + Len(Indent(t1)) + Len(word),
                             !.output = @ \o <<Indent(t1), word>>]
             ELSE [t1 EXCEPT !.line_length = @ + 1 + Len(word),
                             !.output = IF word[1] \in {",", "."}
                                        THEN @ \o <<word>>
                                        ELSE @ \o <<<<SP>>, word>>]

RECURSIVE AppendWordWrap(_, _)
AppendWordWrap(t, text) ==
    IF text = <<>> THEN t ELSE AppendWordWrap(WrapWord(t, Head(text)), Tail(text))

\* append that extends the held words before it refuses the newlines
MutAppendOutHoldsThenRaises(t, text, newlines) ==
    IF t.raised # "none" THEN t
    ELSE IF Len(t.hold_space) = 0
         THEN LET t1 == AppendWordWrap(t, text)
              IN  IF newlines > 0 THEN EmitNewlines(t1, newlines) ELSE t1
         ELSE LET t1 == [t EXCEPT !.hold_space[Len(t.hold_space)] = @ \o text]
              IN  IF newlines # 0
                  THEN Raise(t1, Imported("NotImplementedError", "AssertionError"))
                  ELSE t1

\* append, lines 163-175; text = <<>> stands for None and for the empty list
AppendOut(t, text, newlines) ==
    IF t.raised # "none" THEN t
    ELSE IF Len(t.hold_space) = 0
         THEN LET t1 == AppendWordWrap(t, text)
              IN  IF newlines > 0 THEN EmitNewlines(t1, newlines) ELSE t1
         ELSE IF newlines # 0
              THEN Raise(t, Imported("NotImplementedError", "AssertionError"))
              ELSE [t EXCEPT !.hold_space[Len(t.hold_space)] = @ \o text]

\* enter_nonbreakable_element, lines 177-179
EnterNonbreakable(t) ==
    IF t.raised # "none" THEN t ELSE [t EXCEPT !.hold_space = Append(@, <<>>)]

\* exit_nonbreakable_element, lines 181-183: the value returned and the fields after
HeldText(t) == JoinWith(<<SP>>, t.hold_space[Len(t.hold_space)])

ExitNonbreakable(t) ==
    IF t.raised # "none" THEN t
    ELSE [t EXCEPT !.hold_space = SubSeq(@, 1, Len(@) - 1)]

\* append_possible_newline, lines 185-189
AppendPossibleNewline(t) ==
    IF t.raised # "none" THEN t
    ELSE IF t.need_newline_before_paragraph_start
         THEN [AppendOut(t, <<>>, 1) EXCEPT !.need_newline_before_paragraph_start = FALSE]
         ELSE t

SetNeedNewline(t, b) ==
    IF t.raised # "none" THEN t ELSE [t EXCEPT !.need_newline_before_paragraph_start = b]

\* re.split(r"[ \n]+", text), line 242: empty strings at the ends are kept
RECURSIVE SplitFrom(_, _, _)
SplitFrom(s, i, cur) ==
    IF i > Len(s) THEN <<cur>>
    ELSE IF s[i] \in {SP, NL}
         THEN <<cur>> \o SplitFrom(s, SkipSpace(s, i), <<>>)
         ELSE SplitFrom(s, i + 1, Append(cur, s[i]))

SplitWords(s) == SplitFrom(s, 1, <<>>)

StartsWith(s, p) == Len(s) >= Len(p) /\ SubSeq(s, 1, Len(p)) = p

\* visit_target, lines 191-193
visit_target(t) == EnterNonbreakable(t)

\* depart_target, lines 195-208
depart_target(t, node) ==
    LET t1 == ExitNonbreakable(t)
    IN  IF StartsWith(node.rawsource, <<".", ".", SP, "_">>)
        THEN SetNeedNewline(AppendOut(AppendPossibleNewline(t1), <<node.rawsource>>, 1), TRUE)
        ELSE IF node.kids
             THEN AppendOut(t1, <<node.rawsource>>, 0)
             ELSE t1

\* visit_section / depart_section, lines 210-214
visit_section(t) == [t EXCEPT !.section_depth = @ + 1]

depart_section(t) == [t EXCEPT !.section_depth = @ - 1]

\* visit_title, lines 216-218
visit_title(t) == EnterNonbreakable(AppendPossibleNewline(t))

\* depart_title, lines 220-231
\* depart_title drawing the underline four characters long, the length
\* fix_heading_line_length gives the heading lines of the input
MutDepartTitleFour(t) ==
    LET title_text == HeldText(t)
        t1 == ExitNonbreakable(t)
    IN  IF t.section_depth - 1 >= Len(cfg.title_order)
        THEN Raise(t1, "RuntimeError")
        ELSE LET sep_chars == cfg.title_order[t.section_depth]
                 t2 == IF Len(sep_chars) = 2
                       THEN AppendOut(t1, <<Rep(sep_chars[1], Len(title_text))>>, 1)
                       ELSE t1
                 t3 == AppendOut(t2, <<title_text>>, 1)
                 t4 == AppendOut(t3, <<Rep(sep_chars[Len(sep_chars)], 4)>>, 1)
             IN  IF t.section_depth <= cfg.newline_after_title
                 THEN SetNeedNewline(t4, TRUE)
                 ELSE t4

\* depart_title taking the last entry of title_order for a deeper section
MutDepartTitleClamp(t) ==
    LET title_text == HeldText(t)
        t1 == ExitNonbreakable(t)
        n == Len(cfg.title_order)
        sep_chars == cfg.title_order[IF t.section_depth > n THEN n ELSE t.section_depth]
        t2 == IF Len(sep_chars) = 2
              THEN AppendOut(t1, <<Rep(sep_chars[1], Len(title_text))>>, 1)
              ELSE t1
        t3 == AppendOut(t2, <<title_text>>, 1)
        t4 == AppendOut(t3, <<Rep(sep_chars[Len(sep_chars)], Len(title_text))>>, 1)
    IN  IF t.section_depth <= cfg.newline_after_title THEN SetNeedNewline(t4, TRUE) ELSE t4

\* depart_title asking for the blank line only below newline_after_title
MutDepartTitleStrict(t) ==
    LET title_text == HeldText(t)
        t1 == ExitNonbreakable(t)
    IN  IF t.section_depth - 1 >= Len(cfg.title_order)
        THEN Raise(t1, "RuntimeError")
        ELSE LET idx == IF t.section_depth - 1 < 0
                        THEN Len(cfg.title_order) + t.section_depth
                        ELSE t.section_depth
                 sep_chars == cfg.title_order[idx]
                 t2 == IF Len(sep_chars) = 2
                       THEN AppendOut(t1, <<Rep(sep_chars[1], Len(title_text))>>, 1)
                       ELSE t1
                 t3 == AppendOut(t2, <<title_text>>, 1)
                 t4 == AppendOut(t3, <<Rep(sep_chars[Len(sep_chars)], Len(title_text))>>, 1)
             IN  IF t.section_depth < cfg.newline_after_title
                 THEN SetNeedNewline(t4, TRUE)
                 ELSE t4

depart_title(t) ==
    LET title_text == HeldText(t)
        t1 == ExitNonbreakable(t)
    IN  IF t.section_depth - 1 >= Len(cfg.title_order)
        THEN Raise(t1, "RuntimeError")
        ELSE LET \* a negative index counts from the end of the list
                 idx == IF t.section_depth - 1 < 0
                        THEN Len(cfg.title_order) + t.section_depth
                        ELSE t.section_depth
                 sep_chars == cfg.title_order[idx]
                 t2 == IF Len(sep_chars) = 2
                       THEN AppendOut(t1, <<Rep(sep_chars[1], Len(title_text))>>, 1)
                       ELSE t1
                 t3 == AppendOut(t2, <<title_text>>, 1)
                 t4 == AppendOut(t3, <<Rep(sep_chars[Len(sep_chars)], Len(title_text))>>, 1)
             IN  IF t.section_depth <= cfg.newline_after_title
                 THEN SetNeedNewline(t4, TRUE)
                 ELSE t4

\* visit_paragraph / depart_paragraph, lines 233-238
visit_paragraph(t) == AppendPossibleNewline(t)

depart_paragraph(t) == SetNeedNewline(AppendOut(t, <<>>, 1), TRUE)

\* visit_Text, lines 240-242 (depart_Text does nothing)
visit_Text(t, text) == AppendOut(t, SplitWords(text), 0)

\* visit_bullet_list with one newline for the enclosing list and one more
\* for the pending blank line
MutBulletListAddsUp(t, bullet) ==
    LET t1 == IF Len(t.bullet_char) > 0 THEN AppendOut(t, <<>>, 1) ELSE t
        t2 == IF t.need_newline_before_paragraph_start THEN AppendOut(t1, <<>>, 1) ELSE t1
    IN  [t2 EXCEPT !.bullet_char = Append(@, bullet)]

\* visit_bullet_list / depart_bullet_list, lines 247-253
visit_bullet_list(t, bullet) ==
    LET t1 == IF Len(t.bullet_char) > 0 \/ t.need_newline_before_paragraph_start
              THEN AppendOut(t, <<>>, 1)
              ELSE t
    IN  [t1 EXCEPT !.bullet_char = Append(@, bullet)]

depart_bullet_list(t) == [t EXCEPT !.bullet_char = SubSeq(@, 1, Len(@) - 1)]

\* visit_list_item / depart_list_item, lines 255-261; self.indent[1:-1] is ""
visit_list_item(t) ==
    LET t1 == AppendOut(t, <<t.bullet_char[Len(t.bullet_char)]>>, 0)
    IN  IF t1.raised # "none" THEN t1
        ELSE [t1 EXCEPT !.indent_level = @ + 1,
                        !.need_newline_before_paragraph_start = FALSE]

\* depart_list_item leaving the indent level as visit_list_item set it
MutDepartListItemKeeps(t) == t

depart_list_item(t) == [t EXCEPT !.indent_level = @ - 1]

\* visit_citation / depart_citation, lines 263-268
visit_citation(t) == AppendOut(AppendPossibleNewline(t), <<<<".", ".">>>>, 0)

depart_citation(t) == SetNeedNewline(t, TRUE)

\* visit_label / depart_label, lines 270-275
visit_label(t) == EnterNonbreakable(t)

depart_label(t) ==
    AppendOut(ExitNonbreakable(t), <<<<"[">> \o HeldText(t) \o <<"]">>>>, 0)

\* visit_system_message writing the message out as a paragraph would be
MutSystemMessageRendered(t) ==
    SetNeedNewline(AppendOut(AppendPossibleNewline(t), <<<<"a">>>>, 1), TRUE)

\* visit_system_message, lines 277-278: SkipChildren, the subtree is not walked
visit_system_message(t) == t

(***************************************************************************)
(* DirectivePlaceholder: name and each argument are strings, options is a  *)
(* function from option key to value, content a sequence of lines.         *)
(***************************************************************************)
\* ord(c); the backquote is written "'" (a TLA+ string cannot hold it)
CharCode(c) ==
    CASE c = NL -> 10 [] c = SP -> 32 [] c = "*" -> 42 [] c = "," -> 44
      [] c = "-" -> 45 [] c = "." -> 46 [] c = ":" -> 58 [] c = "=" -> 61
      [] c = "[" -> 91 [] c = "]" -> 93 [] c = "_" -> 95 [] c = "'" -> 96
      [] c = "a" -> 97 [] c = "b" -> 98 [] c = "c" -> 99 [] c = "d" -> 100
      [] c = "e" -> 101 [] c = "k" -> 107 [] c = "t" -> 116 [] c = "u" -> 117
      [] c = "x" -> 120 [] c = "~" -> 126

\* Python's order of str
RECURSIVE StrLess(_, _)
StrLess(x, y) ==
    IF y = <<>> THEN FALSE
    ELSE IF x = <<>> THEN TRUE
    ELSE IF x[1] # y[1] THEN CharCode(x[1]) < CharCode(y[1])
    ELSE StrLess(Tail(x), Tail(y))

\* sorted(node.options.items()): the keys in ascending order
RECURSIVE SortedKeys(_)
SortedKeys(keys) ==
    IF keys = {} THEN <<>>
    ELSE LET m == CHOOSE k \in keys : \A o \in keys \ {k} : StrLess(k, o)
         IN  <<m>> \o SortedKeys(keys \ {m})

RECURSIVE AppendOptions(_, _, _)
AppendOptions(t, options, keys) ==
    IF keys = <<>> THEN t
    ELSE AppendOptions(
             AppendOut(t, <<<<":">> \o Head(keys) \o <<":">>, options[Head(keys)]>>, 1),
             options, Tail(keys))

RECURSIVE AppendContent(_, _)
AppendContent(t, content) ==
    IF content = <<>> THEN t
    ELSE AppendContent(AppendOut(t, <<Head(content)>>, 1), Tail(content))

\* visit_DirectivePlaceholder without the test of the line cursor
MutDirectiveAnyColumn(t, node) ==
    LET t1 == AppendPossibleNewline(t)
        t2 == AppendOut(t1, <<<<".", ".", SP>> \o node.name \o <<":", ":">>>>
                            \o node.arguments, 1)
        t3 == [t2 EXCEPT !.indent_level = @ + 1]
        t4 == AppendOptions(t3, node.options, SortedKeys(DOMAIN node.options))
        t5 == IF DOMAIN node.options # {} /\ node.content # <<>>
              THEN AppendOut(t4, <<>>, 1)
              ELSE t4
    IN  AppendContent(t5, node.content)

\* visit_DirectivePlaceholder, lines 283-296
visit_DirectivePlaceholder(t, node) ==
    LET t1 == AppendPossibleNewline(t)
    IN  IF t1.line_length # 0
        THEN Raise(t1, Imported("RuntimeError", "AssertionError"))
        ELSE LET t2 == AppendOut(t1, <<<<".", ".", SP>> \o node.name \o <<":", ":">>>>
                                     \o node.arguments, 1)
                 t3 == [t2 EXCEPT !.indent_level = @ + 1]
                 t4 == AppendOptions(t3, node.options, SortedKeys(DOMAIN node.options))
                 t5 == IF DOMAIN node.options # {} /\ node.content # <<>>
                       THEN AppendOut(t4, <<>>, 1)
                       ELSE t4
             IN  AppendContent(t5, node.content)

\* depart_DirectivePlaceholder asking for no blank line
MutDepartDirectiveNoBlank(t) ==
    SetNeedNewline([t EXCEPT !.indent_level = @ - 1], FALSE)

\* depart_DirectivePlaceholder, lines 298-300
depart_DirectivePlaceholder(t) ==
    SetNeedNewline([t EXCEPT !.indent_level = @ - 1], TRUE)

(***************************************************************************)
(* unknown_visit / unknown_departure, lines 302-323                        *)
(***************************************************************************)
ignored_nodes == {"document", "transition"}

non_breakable_nodes ==
    {"citation_reference", "emphasis", "reference", "strong", "target", "NoLineBreakNode"}

unknown_visit(t, node) ==
    IF node.kind \in ignored_nodes THEN t
    ELSE IF node.kind \in non_breakable_nodes THEN EnterNonbreakable(t)
    ELSE Raise(t, "RuntimeError")

unknown_departure(t, node) ==
    IF node.kind \in ignored_nodes THEN t
    ELSE IF node.kind \in non_breakable_nodes
         THEN AppendOut(ExitNonbreakable(t), <<node.rawsource>>, 0)
         ELSE Raise(t, "RuntimeError")

\* the older copy: ignored_nodes holds the document only, and unknown_visit
\* and unknown_departure print the class of the node and return
ignored_nodes_old == {"document"}

unknown_visit_old(t, node) ==
    IF node.kind \in ignored_nodes_old THEN t
    ELSE IF node.kind \in non_breakable_nodes THEN EnterNonbreakable(t)
    ELSE t

unknown_departure_old(t, node) ==
    IF node.kind \in ignored_nodes_old THEN t
    ELSE IF node.kind \in non_breakable_nodes
         THEN AppendOut(ExitNonbreakable(t), <<node.rawsource>>, 0)
         ELSE t

(***************************************************************************)
(* The trees the renderer walks.  The parser is docutils: the walk draws   *)
(* every tree its document model allows within the bounds, node by node.   *)
(* A stack entry holds what the handlers read of the node: its class, its  *)
(* rawsource, and whether it has children (entered so far).                *)
(***************************************************************************)
Texts ==
    { <<"a", "a", SP, "b", "b", "b">>,
      <<",", "d", SP>> }

\* nodes of the classes in non_breakable_nodes that have no visit_ method;
\* NoLineBreakNode holds match.group(0) of ~[^~]*~, which may span a line break
Spans ==
    { [kind |-> "emphasis", rawsource |-> <<"*", "a", "*">>],
      [kind |-> "reference", rawsource |-> <<"c", "_">>],
      [kind |-> "NoLineBreakNode", rawsource |-> <<"~", "b", SP, "c", "~">>],
      [kind |-> "NoLineBreakNode", rawsource |-> <<"~", "b", NL, "c", "~">>] }

\* hyperlink target, inline target (backquotes written "'"), anonymous target
ExplicitTarget == <<".", ".", SP, "_", "t", ":">>
InlineTarget == <<"_", "'", "t", "'">>
AnonymousTarget == <<"_", "_", SP, "u">>

Bullets == { <<"*">> }

Directives ==
    { [name |-> <<"d">>, arguments |-> << <<"x">> >>,
       options |-> (<<"k">> :> <<"e">>), content |-> << <<"a", SP, "b">> >>],
      [name |-> <<"d">>, arguments |-> <<>>, options |-> <<>>, content |-> <<>>] }

\* classes without a rendering rule: a block and an inline one
UnknownKinds == {"literal_block", "literal"}

BodyKinds ==
    {"paragraph", "bullet_list", "target", "citation", "DirectivePlaceholder",
     "system_message", "literal_block"}

InlineKinds ==
    {"Text", "target", "literal"} \cup {s.kind : s \in Spans}

\* the text a span's rawsource wraps
InnerText(raw) == SelectSeq(raw, LAMBDA c : c \in {"a", "b", "c", "t", SP, NL})

\* the classes a child of node may have
ChildKinds(node) ==
    CASE node.kind = "document" -> BodyKinds \cup {"section", "transition"}
      [] node.kind = "section" ->
            IF node.kids THEN BodyKinds \cup {"section", "transition"} ELSE {"title"}
      [] node.kind = "title" -> InlineKinds
      [] node.kind = "paragraph" -> InlineKinds
      [] node.kind = "bullet_list" -> {"list_item"}
      [] node.kind = "list_item" -> BodyKinds
      [] node.kind = "citation" -> IF node.kids THEN BodyKinds ELSE {"label"}
      [] node.kind = "label" -> {"Text"}
      [] node.kind = "target" ->
            IF node.rawsource = InlineTarget /\ ~node.kids THEN {"Text"} ELSE {}
      [] node.kind \in {"emphasis", "strong", "reference", "citation_reference"} ->
            IF node.kids THEN {} ELSE {"Text"}
      [] node.kind \in UnknownKinds -> IF node.kids THEN {} ELSE {"Text"}
      [] OTHER -> {}

\* the classes whose nodes the parser never leaves without a child
NeedsChild ==
    {"section", "title", "paragraph", "bullet_list", "citation", "label",
     "emphasis", "strong", "reference", "citation_reference"} \cup UnknownKinds

Top == stack[Len(stack)]

Walking == tr.raised = "none" /\ ~returned

CanEnter(kind) ==
    /\ Walking
    /\ stack # <<>>
    /\ kind \in ChildKinds(Top)
    /\ visited < MaxNodes
    /\ Len(stack) < MaxDepth

CanLeave(kinds) ==
    /\ Walking
    /\ stack # <<>>
    /\ Top.kind \in kinds
    /\ Top.kind \in NeedsChild => Top.kids
    /\ Top.kind = "target" /\ Top.rawsource = InlineTarget => Top.kids

Node(kind, raw) == [kind |-> kind, rawsource |-> raw, kids |-> FALSE]

Pushed(node) == Append([stack EXCEPT ![Len(stack)].kids = TRUE], node)

Popped == SubSeq(stack, 1, Len(stack) - 1)

Ran(handler, node) == [handler |-> handler, node |-> node]

WalkConfigs ==
    { [max_line_length |-> MaxWidth, title_order |-> DefaultTitleOrder,
       newline_after_title |-> 1, newline_bullet_list |-> FALSE],
      [max_line_length |-> MaxWidth - 3, title_order |-> << <<"-">> >>,
       newline_after_title |-> -1, newline_bullet_list |-> FALSE] }

NormIdle ==
    /\ norig = <<>>
    /\ ntext = <<>>
    /\ nstage = "idle"
    /\ nfirst = <<>>
    /\ npass = 0

CallIdle ==
    fmt = [input |-> <<>>, call |-> 0, at |-> "idle", text |-> <<>>,
           doctree |-> <<>>, out |-> <<>>, first |-> <<>>]

\* the module attributes as docutils defines them
Unpatched ==
    [_directives |-> "_directives", parse_directive_block |-> "parse_directive_block"]

NotStarted ==
    [pc |-> "start", old_directive_handler |-> "unset", old_directive_parser |-> "unset",
     directive_class |-> "unset", parsed_by |-> "unset"]

ConcIdle ==
    /\ glob = Unpatched
    /\ thr = <<>>

ToolIdle ==
    /\ dir = <<>>
    /\ cli = <<>>

\* no title and no directive rendered yet, or a word emitted since
NoBlock == [block |-> "none", depth |-> 0]

\* a fragment of the output that is a word: not the indentation, not the
\* separating space, not newlines
IsWord(frag) == \E k \in 1..Len(frag) : frag[k] \notin {SP, NL}

\* prev after a handler has run: depart_title and depart_DirectivePlaceholder
\* end a block, a word appended by any other handler follows it
EndedBlock ==
    IF tr'.raised # "none" THEN prev
    ELSE IF last'.handler = "depart_title"
         THEN [block |-> "title", depth |-> tr.section_depth]
    ELSE IF last'.handler = "depart_DirectivePlaceholder"
         THEN [block |-> "directive", depth |-> 0]
    ELSE IF \E i \in (Len(tr.output) + 1)..Len(tr'.output) : IsWord(tr'.output[i])
         THEN NoBlock
    ELSE prev

WalkIdle ==
    /\ prev = NoBlock
    /\ tr = TrInit
    /\ stack = <<>>
    /\ last = Ran("idle", Node("", <<>>))
    /\ visited = 0
    /\ returned = FALSE
    /\ result = <<>>

Init ==
    /\ prev = NoBlock
    /\ ToolIdle
    /\ module = Packaged
    /\ cfg \in WalkConfigs
    /\ tr = TrInit
    /\ stack = <<>>
    /\ last = Ran("init", Node("", <<>>))
    /\ visited = 0
    /\ returned = FALSE
    /\ result = <<>>
    /\ NormIdle
    /\ CallIdle
    /\ ConcIdle

\* document.walkabout(visitor) enters the document: unknown_visit ignores it
VisitDocument ==
    /\ Walking
    /\ last.handler = "init"
    /\ tr' = Imported(unknown_visit(tr, Node("document", <<>>)),
                       unknown_visit_old(tr, Node("document", <<>>)))
    /\ stack' = <<Node("document", <<>>)>>
    /\ last' = Ran("unknown_visit", Node("document", <<>>))
    /\ prev' = EndedBlock
    /\ UNCHANGED <<module, cfg, toolVars, callVars, concVars, normVars, visited, returned, result>>

\* a node of a class with no visit_ method: unknown_visit
UnknownVisit ==
    \E node \in {Node(s.kind, s.rawsource) : s \in Spans}
                \cup {Node(k, <<>>) : k \in UnknownKinds \cup {"transition"}} :
        /\ CanEnter(node.kind)
        /\ Top.kind = "title" => NL \notin {node.rawsource[i] : i \in 1..Len(node.rawsource)}
        /\ tr' = Imported(unknown_visit(tr, node), unknown_visit_old(tr, node))
        /\ stack' = Pushed(node)
        /\ last' = Ran("unknown_visit", node)
        /\ visited' = visited + 1
        /\ prev' = EndedBlock
        /\ UNCHANGED <<module, cfg, toolVars, callVars, concVars, normVars, returned, result>>

UnknownDeparture ==
    /\ CanLeave({s.kind : s \in Spans} \cup UnknownKinds \cup ignored_nodes)
    /\ tr' = Imported(unknown_departure(tr, Top), unknown_departure_old(tr, Top))
    /\ stack' = Popped
    /\ last' = Ran("unknown_departure", Top)
    /\ prev' = EndedBlock
    /\ UNCHANGED <<module, cfg, toolVars, callVars, concVars, normVars, visited, returned, result>>

VisitTarget ==
    \E raw \in {ExplicitTarget, InlineTarget, AnonymousTarget} :
        /\ CanEnter("target")
        /\ (raw = InlineTarget) = (Top.kind \in {"paragraph", "title"})
        /\ tr' = visit_target(tr)
        /\ stack' = Pushed(Node("target", raw))
        /\ last' = Ran("visit_target", Node("target", raw))
        /\ visited' = visited + 1
        /\ prev' = EndedBlock
        /\ UNCHANGED <<module, cfg, toolVars, callVars, concVars, normVars, returned, result>>

DepartTarget ==
    /\ CanLeave({"target"})
    /\ tr' = depart_target(tr, Top)
    /\ stack' = Popped
    /\ last' = Ran("depart_target", Top)
    /\ prev' = EndedBlock
    /\ UNCHANGED <<module, cfg, toolVars, callVars, concVars, normVars, visited, returned, result>>

VisitSection ==
    /\ CanEnter("section")
    /\ tr' = visit_section(tr)
    /\ stack' = Pushed(Node("section", <<>>))
    /\ last' = Ran("visit_section", Node("section", <<>>))
    /\ visited' = visited + 1
    /\ prev' = EndedBlock
    /\ UNCHANGED <<module, cfg, toolVars, callVars, concVars, normVars, returned, result>>

DepartSection ==
    /\ CanLeave({"section"})
    /\ tr' = depart_section(tr)
    /\ stack' = Popped
    /\ last' = Ran("depart_section", Top)
    /\ prev' = EndedBlock
    /\ UNCHANGED <<module, cfg, toolVars, callVars, concVars, normVars, visited, returned, result>>

VisitTitle ==
    /\ CanEnter("title")
    /\ tr' = visit_title(tr)
    /\ stack' = Pushed(Node("title", <<>>))
    /\ last' = Ran("visit_title", Node("title", <<>>))
    /\ visited' = visited + 1
    /\ prev' = EndedBlock
    /\ UNCHANGED <<module, cfg, toolVars, callVars, concVars, normVars, returned, result>>

DepartTitle ==
    /\ CanLeave({"title"})
    /\ tr' = depart_title(tr)
    /\ stack' = Popped
    /\ last' = Ran("depart_title", Top)
    /\ prev' = EndedBlock
    /\ UNCHANGED <<module, cfg, toolVars, callVars, concVars, normVars, visited, returned, result>>

VisitParagraph ==
    /\ CanEnter("paragraph")
    /\ tr' = visit_paragraph(tr)
    /\ stack' = Pushed(Node("paragraph", <<>>))
    /\ last' = Ran("visit_paragraph", Node("paragraph", <<>>))
    /\ visited' = visited + 1
    /\ prev' = EndedBlock
    /\ UNCHANGED <<module, cfg, toolVars, callVars, concVars, normVars, returned, result>>

DepartParagraph ==
    /\ CanLeave({"paragraph"})
    /\ tr' = depart_paragraph(tr)
    /\ stack' = Popped
    /\ last' = Ran("depart_paragraph", Top)
    /\ prev' = EndedBlock
    /\ UNCHANGED <<module, cfg, toolVars, callVars, concVars, normVars, visited, returned, result>>

\* a Text node is a leaf: visit_Text, then depart_Text, which does nothing
VisitText ==
    \E text \in IF stack # <<>> /\ Top.kind \in {"paragraph", "title"}
                THEN Texts
                ELSE IF stack # <<>> /\ Top.kind = "label" THEN {<<"c">>}
                ELSE IF stack # <<>> THEN {InnerText(Top.rawsource)}
                ELSE {} :
        /\ CanEnter("Text")
        /\ tr' = visit_Text(tr, text)
        /\ stack' = [stack EXCEPT ![Len(stack)].kids = TRUE]
        /\ last' = Ran("visit_Text", Node("Text", text))
        /\ visited' = visited + 1
        /\ prev' = EndedBlock
        /\ UNCHANGED <<module, cfg, toolVars, callVars, concVars, normVars, returned, result>>

VisitBulletList ==
    \E bullet \in Bullets :
        /\ CanEnter("bullet_list")
        /\ tr' = visit_bullet_list(tr, bullet)
        /\ stack' = Pushed(Node("bullet_list", <<>>))
        /\ last' = Ran("visit_bullet_list", Node("bullet_list", <<>>))
        /\ visited' = visited + 1
        /\ prev' = EndedBlock
        /\ UNCHANGED <<module, cfg, toolVars, callVars, concVars, normVars, returned, result>>

DepartBulletList ==
    /\ CanLeave({"bullet_list"})
    /\ tr' = depart_bullet_list(tr)
    /\ stack' = Popped
    /\ last' = Ran("depart_bullet_list", Top)
    /\ prev' = EndedBlock
    /\ UNCHANGED <<module, cfg, toolVars, callVars, concVars, normVars, visited, returned, result>>

VisitListItem ==
    /\ CanEnter("list_item")
    /\ tr' = visit_list_item(tr)
    /\ stack' = Pushed(Node("list_item", <<>>))
    /\ last' = Ran("visit_list_item", Node("list_item", <<>>))
    /\ visited' = visited + 1
    /\ prev' = EndedBlock
    /\ UNCHANGED <<module, cfg, toolVars, callVars, concVars, normVars, returned, result>>

DepartListItem ==
    /\ CanLeave({"list_item"})
    /\ tr' = depart_list_item(tr)
    /\ stack' = Popped
    /\ last' = Ran("depart_list_item", Top)
    /\ prev' = EndedBlock
    /\ UNCHANGED <<module, cfg, toolVars, callVars, concVars, normVars, visited, returned, result>>

VisitCitation ==
    /\ CanEnter("citation")
    /\ tr' = visit_citation(tr)
    /\ stack' = Pushed(Node("citation", <<>>))
    /\ last' = Ran("visit_citation", Node("citation", <<>>))
    /\ visited' = visited + 1
    /\ prev' = EndedBlock
    /\ UNCHANGED <<module, cfg, toolVars, callVars, concVars, normVars, returned, result>>

DepartCitation ==
    /\ CanLeave({"citation"})
    /\ tr' = depart_citation(tr)
    /\ stack' = Popped
    /\ last' = Ran("depart_citation", Top)
    /\ prev' = EndedBlock
    /\ UNCHANGED <<module, cfg, toolVars, callVars, concVars, normVars, visited, returned, result>>

VisitLabel ==
    /\ CanEnter("label")
    /\ tr' = visit_label(tr)
    /\ stack' = Pushed(Node("label", <<>>))
    /\ last' = Ran("visit_label", Node("label", <<>>))
    /\ visited' = visited + 1
    /\ prev' = EndedBlock
    /\ UNCHANGED <<module, cfg, toolVars, callVars, concVars, normVars, returned, result>>

DepartLabel ==
    /\ CanLeave({"label"})
    /\ tr' = depart_label(tr)
    /\ stack' = Popped
    /\ last' = Ran("depart_label", Top)
    /\ prev' = EndedBlock
    /\ UNCHANGED <<module, cfg, toolVars, callVars, concVars, normVars, visited, returned, result>>

\* visit_system_message raises SkipChildren: no child is entered, and
\* depart_system_message does nothing
VisitSystemMessage ==
    /\ CanEnter("system_message")
    /\ tr' = visit_system_message(tr)
    /\ stack' = [stack EXCEPT ![Len(stack)].kids = TRUE]
    /\ last' = Ran("visit_system_message", Node("system_message", <<>>))
    /\ visited' = visited + 1
    /\ prev' = EndedBlock
    /\ UNCHANGED <<module, cfg, toolVars, callVars, concVars, normVars, returned, result>>

\* DirectivePlaceholder.children is (): the departure follows the visit
VisitDirectivePlaceholder ==
    \E node \in Directives :
        /\ CanEnter("DirectivePlaceholder")
        /\ tr' = visit_DirectivePlaceholder(tr, node)
        /\ stack' = Pushed(Node("DirectivePlaceholder", <<>>))
        /\ last' = Ran("visit_DirectivePlaceholder", Node("DirectivePlaceholder", <<>>))
        /\ visited' = visited + 1
        /\ prev' = EndedBlock
        /\ UNCHANGED <<module, cfg, toolVars, callVars, concVars, normVars, returned, result>>

DepartDirectivePlaceholder ==
    /\ CanLeave({"DirectivePlaceholder"})
    /\ tr' = depart_DirectivePlaceholder(tr)
    /\ stack' = Popped
    /\ last' = Ran("depart_DirectivePlaceholder", Top)
    /\ prev' = EndedBlock
    /\ UNCHANGED <<module, cfg, toolVars, callVars, concVars, normVars, visited, returned, result>>

\* RstFormattingWriter.translate, line 338, once walkabout has returned
Translate ==
    /\ Walking
    /\ stack = <<>>
    /\ last.handler # "init"
    /\ returned' = TRUE
    /\ result' = Flatten(tr.output)
    /\ UNCHANGED <<module, cfg, toolVars, callVars, concVars, normVars, tr, stack, last, visited, prev>>

Next ==
    \/ VisitDocument
    \/ UnknownVisit
    \/ UnknownDeparture
    \/ VisitTarget
    \/ DepartTarget
    \/ VisitSection
    \/ DepartSection
    \/ VisitTitle
    \/ DepartTitle
    \/ VisitParagraph
    \/ DepartParagraph
    \/ VisitText
    \/ VisitBulletList
    \/ DepartBulletList
    \/ VisitListItem
    \/ DepartListItem
    \/ VisitCitation
    \/ DepartCitation
    \/ VisitLabel
    \/ DepartLabel
    \/ VisitSystemMessage
    \/ VisitDirectivePlaceholder
    \/ DepartDirectivePlaceholder
    \/ Translate

Spec == Init /\ [][Next]_vars

\* the same walk by the RstTranslator of the older copy
InitOlder ==
    /\ prev = NoBlock
    /\ ToolIdle
    /\ module = Older
    /\ cfg \in WalkConfigs
    /\ tr = TrInit
    /\ stack = <<>>
    /\ last = Ran("init", Node("", <<>>))
    /\ visited = 0
    /\ returned = FALSE
    /\ result = <<>>
    /\ NormIdle
    /\ CallIdle
    /\ ConcIdle

SpecOlder == InitOlder /\ [][Next]_vars

(***************************************************************************)
(* The normalisers run on their own: the three pre-parse substitutions of  *)
(* format_rst (lines 415-421) in the code's order, applied to a text and   *)
(* then again to their own output, and the post-render substitution        *)
(* (lines 453-454) applied to the output of the first substitution.        *)
(***************************************************************************)
NormAlphabet == {":", NL, "-", SP, "a", "=", "."}

NormConfigs ==
    [max_line_length : {120},
     title_order : {DefaultTitleOrder},
     newline_after_title : {2},
     newline_bullet_list : BOOLEAN]

NormInit ==
    /\ ToolIdle
    /\ module = Packaged
    /\ cfg \in NormConfigs
    /\ norig \in StringsUpTo(NormAlphabet, MaxTextLen)
    /\ ntext = norig
    /\ nstage = "input"
    /\ nfirst = <<>>
    /\ npass = 0
    /\ WalkIdle
    /\ CallIdle
    /\ ConcIdle

\* lines 415-416
PreBullet ==
    /\ nstage = "input"
    /\ npass < 2
    /\ ntext' = IF ~cfg.newline_bullet_list THEN InsertBulletNewline(ntext) ELSE ntext
    /\ nstage' = "bullet"
    /\ UNCHANGED <<module, cfg, toolVars, callVars, concVars, norig, nfirst, npass, walkVars>>

\* line 419
PreDirective ==
    /\ nstage = "bullet"
    /\ ntext' = InsertDirectiveNewline(ntext)
    /\ nstage' = "directive"
    /\ UNCHANGED <<module, cfg, toolVars, callVars, concVars, norig, nfirst, npass, walkVars>>

\* line 421; the pre-pass is complete, its output is the next pass's input
PreHeading ==
    /\ nstage = "directive"
    /\ ntext' = fix_heading_line_length(ntext, cfg)
    /\ nstage' = "input"
    /\ npass' = npass + 1
    /\ nfirst' = IF npass = 0 THEN ntext' ELSE nfirst
    /\ UNCHANGED <<module, cfg, toolVars, callVars, concVars, norig, walkVars>>

\* lines 453-454, applied to the output of lines 415-416
PostBullet ==
    /\ nstage = "bullet"
    /\ npass = 0
    /\ ntext' = IF ~cfg.newline_bullet_list THEN RemoveBulletNewline(ntext) ELSE ntext
    /\ nstage' = "collapsed"
    /\ UNCHANGED <<module, cfg, toolVars, callVars, concVars, norig, nfirst, npass, walkVars>>

NormNext == PreBullet \/ PreDirective \/ PreHeading \/ PostBullet

SpecNorm == NormInit /\ [][NormNext]_vars

(***************************************************************************)
(* format_rst, lines 410-455, called on a document and then on its own     *)
(* output.  The documents are paragraphs of plain words: for these the     *)
(* parser (docutils, called at lines 433-440) cuts the source into lines,  *)
(* removes trailing whitespace, and makes one paragraph with one Text     *)
(* node of every run of non-blank lines.                                   *)
(***************************************************************************)
FormatAlphabet == {"a", ",", SP, NL}

FormatConfigs ==
    [max_line_length : {MaxWidth - 3, 120},
     title_order : {DefaultTitleOrder},
     newline_after_title : {2},
     newline_bullet_list : BOOLEAN]

\* str.splitlines of the source
RECURSIVE LinesFrom(_, _, _)
LinesFrom(s, i, cur) ==
    IF i > Len(s) THEN <<cur>>
    ELSE IF s[i] = NL
         THEN <<cur>> \o LinesFrom(s, i + 1, <<>>)
         ELSE LinesFrom(s, i + 1, Append(cur, s[i]))

TextLines(s) == LinesFrom(s, 1, <<>>)

\* str.rstrip of a source line
RECURSIVE RStripLine(_)
RStripLine(line) ==
    IF line # <<>> /\ IsSpace(line[Len(line)])
    THEN RStripLine(SubSeq(line, 1, Len(line) - 1))
    ELSE line

\* the paragraphs of the source lines from line i on; block holds the lines
\* of the paragraph being read
RECURSIVE ParagraphsFrom(_, _, _)
ParagraphsFrom(lines, i, block) ==
    LET paragraph == IF block = <<>> THEN <<>> ELSE <<JoinWith(<<NL>>, block)>>
    IN  IF i > Len(lines) THEN paragraph
        ELSE IF RStripLine(lines[i]) = <<>>
             THEN paragraph \o ParagraphsFrom(lines, i + 1, <<>>)
             ELSE ParagraphsFrom(lines, i + 1, Append(block, RStripLine(lines[i])))

\* the document tree of a source of plain paragraphs: the text of the Text
\* node of each paragraph
ParseParagraphs(s) == ParagraphsFrom(TextLines(s), 1, <<>>)

\* a source of plain paragraphs: no line is indented
PlainParagraphs(s) ==
    \A i \in 1..Len(s) : s[i] = SP => (i > 1 /\ s[i - 1] # NL)

\* document.walkabout(visitor) over paragraphs of one Text node each
RECURSIVE WalkParagraphs(_, _)
WalkParagraphs(t, paragraphs) ==
    IF paragraphs = <<>> THEN t
    ELSE WalkParagraphs(
             depart_paragraph(visit_Text(visit_paragraph(t), Head(paragraphs))),
             Tail(paragraphs))

FormatInit ==
    /\ ToolIdle
    /\ module = Packaged
    /\ cfg \in FormatConfigs
    /\ \E s \in StringsUpTo(FormatAlphabet, MaxTextLen) :
           /\ PlainParagraphs(s)
           /\ fmt = [input |-> s, call |-> 1, at |-> "called", text |-> s,
                     doctree |-> <<>>, out |-> <<>>, first |-> <<>>]
    /\ NormIdle
    /\ WalkIdle
    /\ ConcIdle

\* lines 415-421: the three substitutions on input_rst
FormatNormalize ==
    /\ fmt.at = "called"
    /\ LET bulleted == IF ~cfg.newline_bullet_list
                       THEN InsertBulletNewline(fmt.text)
                       ELSE fmt.text
       IN  fmt' = [fmt EXCEPT
                     !.text = fix_heading_line_length(InsertDirectiveNewline(bulleted), cfg),
                     !.at = "normalized"]
    /\ UNCHANGED <<module, cfg, toolVars, normVars, walkVars, concVars>>

\* lines 432-440: publish_doctree
FormatParse ==
    /\ fmt.at = "normalized"
    /\ fmt' = [fmt EXCEPT !.doctree = ParseParagraphs(fmt.text), !.at = "parsed"]
    /\ UNCHANGED <<module, cfg, toolVars, normVars, walkVars, concVars>>

\* lines 445-451: publish_from_doctree runs RstFormattingWriter.translate
FormatRender ==
    /\ fmt.at = "parsed"
    /\ fmt' = [fmt EXCEPT !.text = Flatten(WalkParagraphs(TrInit, fmt.doctree).output),
                          !.at = "rendered"]
    /\ UNCHANGED <<module, cfg, toolVars, normVars, walkVars, concVars>>

\* lines 453-455: the collapse substitution, the strip, the return
FormatReturn ==
    /\ fmt.at = "rendered"
    /\ LET out == StripNewlines(IF ~cfg.newline_bullet_list
                                THEN RemoveBulletNewline(fmt.text)
                                ELSE fmt.text)
       IN  fmt' = [fmt EXCEPT !.out = out,
                              !.first = IF fmt.call = 1 THEN out ELSE @,
                              !.at = "returned"]
    /\ UNCHANGED <<module, cfg, toolVars, normVars, walkVars, concVars>>

\* format_rst is called again, on what it returned
FormatAgain ==
    /\ fmt.at = "returned"
    /\ fmt.call = 1
    /\ fmt' = [fmt EXCEPT !.call = 2, !.text = fmt.out, !.doctree = <<>>,
                          !.at = "called"]
    /\ UNCHANGED <<module, cfg, toolVars, normVars, walkVars, concVars>>

FormatNext ==
    FormatNormalize \/ FormatParse \/ FormatRender \/ FormatReturn \/ FormatAgain

SpecFormat == FormatInit /\ [][FormatNext]_vars


(***************************************************************************)
(* format_rst called by several threads of one process, each on a document *)
(* holding a directive.  monkeypatch_directives_handler (lines 369-394)    *)
(* reads and assigns two attributes of docutils' modules, one statement at *)
(* a time; between them the parser, running in the thread, reads           *)
(* directives._directives to find the directive's class and                *)
(* Body.parse_directive_block to parse its block.                          *)
(***************************************************************************)
Threads == 1..MaxThreads

ConcInit ==
    /\ ToolIdle
    /\ module = Packaged
    /\ cfg \in NormConfigs
    /\ glob = Unpatched
    /\ thr = [t \in Threads |-> NotStarted]
    /\ NormIdle
    /\ WalkIdle
    /\ CallIdle

At(t, pc) == thr[t].pc = pc

\* line 386
SaveHandler(t) ==
    /\ At(t, "start")
    /\ thr' = [thr EXCEPT ![t].old_directive_handler = glob._directives,
                          ![t].pc = "saved_handler"]
    /\ UNCHANGED <<module, cfg, toolVars, normVars, walkVars, callVars, glob>>

\* line 387
SaveParser(t) ==
    /\ At(t, "saved_handler")
    /\ thr' = [thr EXCEPT ![t].old_directive_parser = glob.parse_directive_block,
                          ![t].pc = "saved_parser"]
    /\ UNCHANGED <<module, cfg, toolVars, normVars, walkVars, callVars, glob>>

\* line 388
InstallHandler(t) ==
    /\ At(t, "saved_parser")
    /\ glob' = [glob EXCEPT !._directives = "MonkeyPatchedDirectiveHandler"]
    /\ thr' = [thr EXCEPT ![t].pc = "installed_handler"]
    /\ UNCHANGED <<module, cfg, toolVars, normVars, walkVars, callVars>>

\* line 389
InstallParser(t) ==
    /\ At(t, "installed_handler")
    /\ glob' = [glob EXCEPT !.parse_directive_block = "forgiving_parse_directive_block"]
    /\ thr' = [thr EXCEPT ![t].pc = "installed_parser"]
    /\ UNCHANGED <<module, cfg, toolVars, normVars, walkVars, callVars>>

\* lines 433-440, the parser at a directive: the class is looked up in
\* directives._directives; MonkeyPatchedDirectiveHandler (lines 378-383)
\* answers DirectivePlaceholder for every name
LookupDirective(t) ==
    /\ At(t, "installed_parser")
    /\ thr' = [thr EXCEPT
                 ![t].directive_class =
                     IF glob._directives = "MonkeyPatchedDirectiveHandler"
                     THEN "DirectivePlaceholder"
                     ELSE "registered",
                 ![t].pc = "looked_up"]
    /\ UNCHANGED <<module, cfg, toolVars, normVars, walkVars, callVars, glob>>

\* lines 433-440, the parser at a directive: the block is parsed by what
\* Body.parse_directive_block holds
ParseDirectiveBlock(t) ==
    /\ At(t, "looked_up")
    /\ thr' = [thr EXCEPT ![t].parsed_by = glob.parse_directive_block,
                          ![t].pc = "parsed"]
    /\ UNCHANGED <<module, cfg, toolVars, normVars, walkVars, callVars, glob>>

\* lines 445-451: the render reads no module attribute
RenderDoctree(t) ==
    /\ At(t, "parsed")
    /\ thr' = [thr EXCEPT ![t].pc = "rendered"]
    /\ UNCHANGED <<module, cfg, toolVars, normVars, walkVars, callVars, glob>>

\* line 393, in the finally clause: reached when the body has returned and
\* when it has raised
RestoreHandler(t) ==
    /\ At(t, "rendered") \/ At(t, "raised")
    /\ glob' = [glob EXCEPT !._directives = thr[t].old_directive_handler]
    /\ thr' = [thr EXCEPT ![t].pc = IF At(t, "raised") THEN "unwinding"
                                    ELSE "restored_handler"]
    /\ UNCHANGED <<module, cfg, toolVars, normVars, walkVars, callVars>>

\* line 394 skipped when the body has raised
MutRestoreParserOnReturn(t) ==
    /\ At(t, "restored_handler") \/ At(t, "unwinding")
    /\ glob' = IF At(t, "unwinding")
               THEN glob
               ELSE [glob EXCEPT !.parse_directive_block = thr[t].old_directive_parser]
    /\ thr' = [thr EXCEPT ![t].pc = IF At(t, "unwinding") THEN "failed" ELSE "done"]
    /\ UNCHANGED <<module, cfg, toolVars, normVars, walkVars, callVars>>

\* line 394; the exception, if any, leaves format_rst after it
RestoreParser(t) ==
    /\ At(t, "restored_handler") \/ At(t, "unwinding")
    /\ glob' = [glob EXCEPT !.parse_directive_block = thr[t].old_directive_parser]
    /\ thr' = [thr EXCEPT ![t].pc = IF At(t, "unwinding") THEN "failed" ELSE "done"]
    /\ UNCHANGED <<module, cfg, toolVars, normVars, walkVars, callVars>>

ConcNext ==
    \E t \in Threads :
        \/ SaveHandler(t)
        \/ SaveParser(t)
        \/ InstallHandler(t)
        \/ InstallParser(t)
        \/ LookupDirective(t)
        \/ ParseDirectiveBlock(t)
        \/ RenderDoctree(t)
        \/ RestoreHandler(t)
        \/ RestoreParser(t)

SpecConc == ConcInit /\ [][ConcNext]_vars


(***************************************************************************)
(* The directive-capture adapter, forgiving_parse_directive_block (lines   *)
(* 341-366), fed with the block of a directive: indented[0] is what        *)
(* follows the directive marker on its line, the other lines have their    *)
(* common indentation removed, and no line ends in whitespace.             *)
(***************************************************************************)
\* the first index >= i of a colon that the end of the line or a space
\* follows, 0 if there is none
RECURSIVE ClosingColon(_, _)
ClosingColon(line, i) ==
    IF i > Len(line) THEN 0
    ELSE IF line[i] = ":" /\ (i = Len(line) \/ line[i + 1] = SP) THEN i
    ELSE ClosingColon(line, i + 1)

\* self.patterns["field_marker"], line 350, matched at the start of a line
\* without backslash and backquote: the length of option_match.group(), 0 if
\* there is no match.  The pattern is
\*   :(?![: ])([^:\\]|\\.|:(?!([ ']|$)))*(?<! ):( +|$)
\* (the quote stands for the backquote): the closing colon is the first one
\* followed by a space or the end of the line, and the match runs on over
\* the spaces after it.
FieldMarkerLen(line) ==
    IF Len(line) < 2 \/ line[1] # ":" \/ line[2] \in {":", SP} THEN 0
    ELSE LET c == ClosingColon(line, 2)
         IN  IF c = 0 \/ line[c - 1] = SP THEN 0 ELSE SkipSpace(line, c + 1) - 1

\* lines 351-358: the option loop; the lines left and the options found
RECURSIVE ParseOptions(_, _)
ParseOptions(indented, options) ==
    IF indented = <<>> \/ FieldMarkerLen(indented[1]) = 0
    THEN [options |-> options, indented |-> indented]
    ELSE LET key == SubSeq(indented[1], 1, FieldMarkerLen(indented[1]))
             value == SubSeq(indented[1], Len(key) + 1, Len(indented[1]))
         IN  ParseOptions(Tail(indented),
                          (SubSeq(key, 2, Len(key) - 2) :> value) @@ options)

\* lines 360-361: trailing blank lines removed
RECURSIVE TrimEnd(_)
TrimEnd(indented) ==
    IF indented # <<>> /\ RStripLine(indented[Len(indented)]) = <<>>
    THEN TrimEnd(SubSeq(indented, 1, Len(indented) - 1))
    ELSE indented

\* lines 341-366; the value returned, without the offset
forgiving_parse_directive_block(indented) ==
    LET parsed == ParseOptions(Tail(indented), <<>>)
        trimmed == TrimEnd(parsed.indented)
    IN  [arguments |-> SelectSeq(SplitWords(indented[1]), LAMBDA w : w # <<>>),
         options |-> parsed.options,
         content |-> IF trimmed # <<>> /\ RStripLine(trimmed[1]) = <<>>
                     THEN Tail(trimmed)
                     ELSE trimmed]

\* the number of spaces a line starts with
LeadingSpaces(line) == SkipSpace(line, 1) - 1

\* the lines from line i on that belong to the block: blank or indented
RECURSIVE BlockLines(_, _)
BlockLines(lines, i) ==
    IF i > Len(lines) THEN <<>>
    ELSE IF lines[i] # <<>> /\ lines[i][1] # SP THEN <<>>
    ELSE <<lines[i]>> \o BlockLines(lines, i + 1)

\* the parser at an explicit markup start (publish_doctree, lines 434-440):
\* the text is a directive if ".. name::" is followed by a space or the end
\* of the line; its block is the rest of that line and the blank or indented
\* lines after it, their smallest indentation taken off.  <<>> if the text
\* is no directive.
DirectiveBlock(text) ==
    LET lines == TextLines(text)
        first == lines[1]
        marker == <<".", ".", SP, "d", ":", ":">>
    IN  IF ~StartsWith(first, marker) \/ (Len(first) > Len(marker) /\ first[Len(marker) + 1] # SP)
        THEN <<>>
        ELSE LET rest == BlockLines(lines, 2)
                 filled == {i \in 1..Len(rest) : RStripLine(rest[i]) # <<>>}
                 indent == IF filled = {} THEN 0
                           ELSE CHOOSE n \in {LeadingSpaces(rest[i]) : i \in filled} :
                                    \A i \in filled : n <= LeadingSpaces(rest[i])
             IN  <<SubSeq(first, SkipSpace(first, Len(marker) + 1), Len(first))>>
                 \o [i \in 1..Len(rest) |->
                        IF i \in filled THEN SubSeq(rest[i], indent + 1, Len(rest[i])) ELSE <<>>]

\* the directives rendered: arguments, options and content as the adapter
\* can return them
DirectiveNodes ==
    [name : {<<"d">>},
     arguments : {<<>>, << <<"x">> >>, << <<".", "x">> >>},
     options : UNION {[keys -> {<<>>, <<"v">>, <<".", "v">>}] : keys \in SUBSET {<<"k">>, <<"e">>}},
     content : {<<>>, << <<"a">> >>, << <<"a">>, <<"b">> >>,
                << <<"a", SP, "b", "b", SP, "c", "c">> >>}]

\* the blocks parsed: an argument line, a line that may hold an option, and
\* the lines after it
OptionAlphabet == {":", "k", SP}

DirectiveBlocks ==
    {<<argline, optline>> \o tail :
        argline \in {<<>>, <<"x", SP, SP, "y">>},
        optline \in {l \in StringsUpTo(OptionAlphabet, MaxTextLen) : RStripLine(l) = l},
        tail \in {<<>>, << <<>>, <<"a">> >>, << <<"a">>, <<>> >>, << <<>>, <<>>, <<"a">> >>}}

DirectiveConfigs ==
    [max_line_length : {MaxWidth, 120},
     title_order : {DefaultTitleOrder},
     newline_after_title : {2},
     newline_bullet_list : {FALSE}]

Captured(given, at, node, text, indented, parsed) ==
    [given |-> given, at |-> at, node |-> node, text |-> text, indented |-> indented,
     parsed |-> parsed]

DirectiveInit ==
    /\ module = Packaged
    /\ cfg \in DirectiveConfigs
    /\ \/ \E node \in DirectiveNodes : dir = Captured("node", "node", node, <<>>, <<>>, <<>>)
       \/ \E indented \in DirectiveBlocks : dir = Captured("block", "block", <<>>, <<>>, indented, <<>>)
    /\ cli = <<>>
    /\ NormIdle
    /\ WalkIdle
    /\ CallIdle
    /\ ConcIdle

\* lines 283-300 on a fresh translator, and line 338
RenderDirective ==
    /\ dir.at = "node"
    /\ dir' = [dir EXCEPT
                 !.text = Flatten(depart_DirectivePlaceholder(
                                      visit_DirectivePlaceholder(TrInit, dir.node)).output),
                 !.at = "rendered"]
    /\ UNCHANGED <<module, cfg, normVars, walkVars, callVars, concVars, cli>>

\* the parser finds the directive in the rendered text, or finds none
ReadDirective ==
    /\ dir.at = "rendered"
    /\ dir' = [dir EXCEPT !.indented = DirectiveBlock(dir.text),
                          !.at = IF DirectiveBlock(dir.text) = <<>> THEN "unread" ELSE "block"]
    /\ UNCHANGED <<module, cfg, normVars, walkVars, callVars, concVars, cli>>

\* the parser calls Body.parse_directive_block, which line 389 has replaced
CaptureDirective ==
    /\ dir.at = "block"
    /\ dir' = [dir EXCEPT !.parsed = forgiving_parse_directive_block(dir.indented),
                          !.at = "captured"]
    /\ UNCHANGED <<module, cfg, normVars, walkVars, callVars, concVars, cli>>

DirectiveNext == RenderDirective \/ ReadDirective \/ CaptureDirective

SpecDirective == DirectiveInit /\ [][DirectiveNext]_vars


(***************************************************************************)
(* main (lines 458-492) run again and again on one file that holds plain   *)
(* paragraphs, with --check and --diff given or not.                       *)
(***************************************************************************)
\* format_rst, lines 410-455, on a source of plain paragraphs
format_rst(input_rst) ==
    LET bulleted == IF ~cfg.newline_bullet_list
                    THEN InsertBulletNewline(input_rst)
                    ELSE input_rst
        source == fix_heading_line_length(InsertDirectiveNewline(bulleted), cfg)
        out == Flatten(WalkParagraphs(TrInit, ParseParagraphs(source)).output)
    IN  StripNewlines(IF ~cfg.newline_bullet_list THEN RemoveBulletNewline(out) ELSE out)

DriverInit ==
    /\ module = Packaged
    /\ cfg \in FormatConfigs
    /\ \E content \in StringsUpTo(FormatAlphabet, MaxTextLen) :
           /\ PlainParagraphs(content)
           /\ cli = [file |-> content, runs |-> 0, rc |-> 0, wrote |-> FALSE,
                     check |-> FALSE, diff |-> FALSE]
    /\ dir = <<>>
    /\ NormIdle
    /\ WalkIdle
    /\ CallIdle
    /\ ConcIdle

\* one run of main: lines 469-492
Main ==
    \E check \in BOOLEAN, diff \in BOOLEAN :
        /\ cli.runs < MaxRuns
        /\ LET content == cli.file
               out == format_rst(content)
               writes == content # out /\ ~diff /\ ~check
           IN  cli' = [file |-> IF writes THEN out ELSE content,
                       runs |-> cli.runs + 1,
                       rc |-> IF content = out THEN 0 ELSE 1,
                       wrote |-> writes,
                       check |-> check,
                       diff |-> diff]
        /\ UNCHANGED <<module, cfg, normVars, walkVars, callVars, concVars, dir>>

SpecDriver == DriverInit /\ [][Main]_vars


(***************************************************************************)
(* append, enter_nonbreakable_element and exit_nonbreakable_element called *)
(* on one translator in any order and with any arguments; visited counts   *)
(* the calls, and a caller stops at the first exception.                   *)
(***************************************************************************)
AppendInit ==
    /\ module = Packaged
    /\ cfg \in WalkConfigs
    /\ WalkIdle
    /\ ToolIdle
    /\ NormIdle
    /\ CallIdle
    /\ ConcIdle

Called(method, text, newlines) ==
    [handler |-> method, node |-> [text |-> text, newlines |-> newlines]]

\* enter_nonbreakable_element, lines 177-179
CallEnter ==
    /\ tr.raised = "none"
    /\ visited < MaxCalls
    /\ tr' = EnterNonbreakable(tr)
    /\ last' = Called("enter_nonbreakable_element", <<>>, 0)
    /\ visited' = visited + 1
    /\ UNCHANGED <<module, cfg, toolVars, callVars, concVars, normVars,
                   stack, returned, result, prev>>

\* append, lines 163-175; text None does what text [] does
CallAppend ==
    \E text \in { <<>>, << <<"a">> >>, << <<"b", "b">>, <<",", "c">> >>,
                  << Rep("a", MaxWidth - 3) >> },
       newlines \in 0..2 :
        /\ tr.raised = "none"
        /\ visited < MaxCalls
        /\ tr' = AppendOut(tr, text, newlines)
        /\ last' = Called("append", text, newlines)
        /\ visited' = visited + 1
        /\ UNCHANGED <<module, cfg, toolVars, callVars, concVars, normVars,
                       stack, returned, result, prev>>

\* exit_nonbreakable_element, lines 181-183; list.pop() of an empty list
\* raises IndexError
CallExit ==
    /\ tr.raised = "none"
    /\ visited < MaxCalls
    /\ tr' = IF tr.hold_space = <<>> THEN Raise(tr, "IndexError")
             ELSE ExitNonbreakable(tr)
    /\ last' = Called("exit_nonbreakable_element", <<>>, 0)
    /\ visited' = visited + 1
    /\ UNCHANGED <<module, cfg, toolVars, callVars, concVars, normVars,
                   stack, returned, result, prev>>

AppendNext == CallEnter \/ CallAppend \/ CallExit

SpecAppend == AppendInit /\ [][AppendNext]_vars


(***************************************************************************)
(* format_rst called again and again by one thread.  The caller may have   *)
(* put a registry and a block parser of its own in place before; a call    *)
(* returns, or raises from the parser or from the renderer.  cli holds the *)
(* number of the call and the two attributes as they were before it.       *)
(***************************************************************************)
CallerGlobals ==
    [_directives : {"_directives", "registry of the caller"},
     parse_directive_block : {"parse_directive_block", "parser of the caller"}]

SingleInit ==
    /\ module = Packaged
    /\ cfg \in NormConfigs
    /\ glob \in CallerGlobals
    /\ thr = [t \in {1} |-> NotStarted]
    /\ cli = [call |-> 1, before |-> glob]
    /\ dir = <<>>
    /\ NormIdle
    /\ WalkIdle
    /\ CallIdle

\* publish_doctree (lines 434-440) raises, before a directive or at one
ParseRaises ==
    /\ At(1, "installed_parser") \/ At(1, "looked_up")
    /\ thr' = [thr EXCEPT ![1].pc = "raised"]
    /\ UNCHANGED <<module, cfg, toolVars, normVars, walkVars, callVars, glob>>

\* publish_from_doctree (lines 445-451) raises: RuntimeError of depart_title,
\* visit_DirectivePlaceholder, unknown_visit
RenderRaises ==
    /\ At(1, "parsed")
    /\ thr' = [thr EXCEPT ![1].pc = "raised"]
    /\ UNCHANGED <<module, cfg, toolVars, normVars, walkVars, callVars, glob>>

\* the caller calls format_rst once more
CallAgain ==
    /\ At(1, "done") \/ At(1, "failed")
    /\ cli.call < MaxRuns
    /\ thr' = [thr EXCEPT ![1] = NotStarted]
    /\ cli' = [call |-> cli.call + 1, before |-> glob]
    /\ UNCHANGED <<module, cfg, normVars, walkVars, callVars, glob, dir>>

SingleNext ==
    \/ SaveHandler(1)
    \/ SaveParser(1)
    \/ InstallHandler(1)
    \/ InstallParser(1)
    \/ LookupDirective(1)
    \/ ParseDirectiveBlock(1)
    \/ RenderDoctree(1)
    \/ ParseRaises
    \/ RenderRaises
    \/ RestoreHandler(1)
    \/ RestoreParser(1)
    \/ CallAgain

SpecSingle == SingleInit /\ [][SingleNext]_vars


(***************************************************************************)
(* Properties of the rendered output.                                      *)
(***************************************************************************)
Chars(s) == {s[i] : i \in 1..Len(s)}

\* a fragment appended by append's newlines branch: "\n" * newlines
IsNewlines(frag) == frag # <<>> /\ \A k \in 1..Len(frag) : frag[k] = NL

\* the words among fragments: not the empty indentation, not the separating
\* space, not newlines
WordsOf(frags) == SelectSeq(frags, LAMBDA f : f # <<>> /\ f # <<SP>> /\ ~IsNewlines(f))

\* the output as lines: the fragments between two newline fragments
RECURSIVE SplitLines(_, _, _)
SplitLines(frags, i, cur) ==
    IF i > Len(frags) THEN <<cur>>
    ELSE IF IsNewlines(frags[i])
         THEN <<cur>> \o SplitLines(frags, i + 1, <<>>)
         ELSE SplitLines(frags, i + 1, Append(cur, frags[i]))

OutputLines == SplitLines(tr.output, 1, <<>>)

\* a line starts with its indentation; its words are the fragments after it
\* that are not the separating space
LineWords(line) ==
    IF line = <<>> THEN <<>> ELSE SelectSeq(Tail(line), LAMBDA f : f # <<SP>>)

RECURSIVE LengthFrom(_, _)
LengthFrom(line, i) == IF i > Len(line) THEN 0 ELSE Len(line[i]) + LengthFrom(line, i + 1)

LineLength(line) == LengthFrom(line, 1)

C4_UnderlineLaw ==
    [][(last'.handler = "depart_title" /\ tr'.raised = "none") =>
          LET added == SubSeq(tr'.output, Len(tr.output) + 1, Len(tr'.output))
              ws == WordsOf(added)
              sep_chars == cfg.title_order[tr.section_depth]
          IN  IF Len(sep_chars) = 2
              THEN /\ Len(ws) = 3
                   /\ ws[2] = HeldText(tr)
                   /\ ws[1] = Rep(sep_chars[1], Len(ws[2]))
                   /\ ws[3] = Rep(sep_chars[2], Len(ws[2]))
              ELSE /\ Len(ws) = 2
                   /\ ws[1] = HeldText(tr)
                   /\ ws[2] = Rep(sep_chars[1], Len(ws[1]))]_vars

\* C4 witness: a title holding inline markup was rendered with overline and
\* underline
C4_Witness ==
    /\ last.handler = "depart_title"
    /\ tr.raised = "none"
    /\ WordsOf(tr.output) = << Rep("=", 3), <<"*", "a", "*">>, Rep("=", 3) >>

\* C5 as stated: a non-breakable span leaves its handler as one word equal to
\* its stored source text, with no newline between its first and its last
\* character
C5_SpanNeverSplit ==
    (/\ last.handler = "unknown_departure"
     /\ last.node.kind \in non_breakable_nodes
     /\ tr.raised = "none"
     /\ tr.hold_space = <<>>) =>
        /\ tr.output[Len(tr.output)] = last.node.rawsource
        /\ NL \notin Chars(tr.output[Len(tr.output)])

\* C9: depart_title raises RuntimeError exactly when the section depth
\* exceeds the number of entries of title_order, and after an error no
\* output is returned
C9_TitleDepthError ==
    /\ last.handler = "depart_title" =>
           ((tr.raised = "RuntimeError") <=> (tr.section_depth > Len(cfg.title_order)))
    /\ last.handler = "depart_title" /\ tr.raised = "none" =>
           tr.section_depth \in 1..Len(cfg.title_order)
    /\ tr.raised # "none" => ~returned /\ result = <<>>

\* C9 witness: a title one level deeper than title_order has entries
C9_Witness ==
    /\ last.handler = "depart_title"
    /\ tr.section_depth = Len(cfg.title_order) + 1
    /\ tr.raised = "RuntimeError"
    /\ tr.output # <<>>

\* C10: a node of a class with no rendering rule, not ignored and not
\* non-breakable, aborts the render when it is entered: the walk never goes
\* on past it and no output is returned
C10_UnknownNodeAborts ==
    /\ \A i \in 1..Len(stack) :
           stack[i].kind \notin ignored_nodes \cup non_breakable_nodes
                                \cup {"section", "title", "paragraph", "bullet_list",
                                      "list_item", "citation", "label",
                                      "DirectivePlaceholder"}
               => tr.raised = "RuntimeError"
    /\ (last.handler \in {"unknown_visit", "unknown_departure"}
        /\ last.node.kind \notin ignored_nodes \cup non_breakable_nodes)
           => tr.raised = "RuntimeError" /\ ~returned /\ result = <<>>

(***************************************************************************)
(* Properties of the normalisers.                                          *)
(***************************************************************************)
\* C7 as stated: the pre-normaliser applied to its own output changes nothing
C7_PreIdempotent == (npass = 2) => (ntext = nfirst)

\* C8: the post-normaliser's substitution undoes the pre-normaliser's first
\* substitution, and with newline_bullet_list set neither changes the text
C8_PostUndoesPre ==
    /\ nstage = "collapsed" => ntext = norig
    /\ (cfg.newline_bullet_list /\ npass = 0 /\ nstage \in {"bullet", "collapsed"})
           => ntext = norig

\* C8 witness: a line ending in ':' directly followed by an indented bullet
\* line went through both substitutions
C8_Witness ==
    /\ nstage = "collapsed"
    /\ ~cfg.newline_bullet_list
    /\ norig = <<":", NL, SP, "-", SP>>
    /\ InsertBulletNewline(norig) = <<":", NL, NL, SP, "-", SP>>

(***************************************************************************)
(* Properties of format_rst.                                               *)
(***************************************************************************)
\* the whitespace-separated tokens of a text
Tokens(s) == SelectSeq(SplitWords(s), LAMBDA w : w # <<>>)

\* C1 as stated: format_rst applied to its own output returns it unchanged
C1_Idempotent ==
    (fmt.at = "returned" /\ fmt.call = 2) => fmt.out = fmt.first

\* C2 as stated: the output of format_rst has the same sequence of
\* non-whitespace tokens as its input
C2_TokensPreserved ==
    (fmt.at = "returned" /\ fmt.call = 1) => Tokens(fmt.out) = Tokens(fmt.input)

\* C6 as stated: every thread's directive is parsed through the capture
\* adapter, as when the call runs alone, and when all calls have finished
\* the two module attributes hold what they held before the first call
C6_NoInterference ==
    /\ \A t \in DOMAIN thr :
           thr[t].pc \in {"parsed", "rendered", "restored_handler", "done"} =>
               /\ thr[t].directive_class = "DirectivePlaceholder"
               /\ thr[t].parsed_by = "forgiving_parse_directive_block"
    /\ (thr # <<>> /\ \A t \in DOMAIN thr : thr[t].pc = "done") => glob = Unpatched

(***************************************************************************)
(* Properties of the directive handlers.                                   *)
(***************************************************************************)
\* C11: visit_DirectivePlaceholder, reached with the line cursor not at zero
\* once the pending blank line is flushed, raises RuntimeError and appends
\* nothing; otherwise it raises nothing and the directive's head is the
\* first word of a line
C11_DirectiveAtColumnZero ==
    [][last'.handler = "visit_DirectivePlaceholder" =>
          IF ~tr.need_newline_before_paragraph_start /\ tr.line_length # 0
          THEN /\ tr'.raised = "RuntimeError"
               /\ tr'.output = tr.output
          ELSE /\ tr'.raised = "none"
               /\ SubSeq(tr'.output, 1, Len(tr.output)) = tr.output
               /\ \E k \in (Len(tr.output) + 2)..Len(tr'.output) :
                      /\ StartsWith(tr'.output[k], <<".", ".", SP>>)
                      /\ tr'.output[k - 1] = Indent(tr)
                      /\ k > 2 => IsNewlines(tr'.output[k - 2])
                      /\ \A j \in (Len(tr.output) + 1)..(k - 2) :
                             IsNewlines(tr'.output[j])]_vars

\* C11 witness: a directive that is the first child of a list item, visited
\* right after the bullet was emitted
C11_Witness ==
    /\ last.handler = "visit_DirectivePlaceholder"
    /\ tr.raised = "RuntimeError"
    /\ Len(stack) >= 2
    /\ stack[Len(stack) - 1].kind = "list_item"
    /\ tr.output[Len(tr.output)] = <<"*">>
    /\ tr.line_length = 1

(***************************************************************************)
(* Properties of the walk.                                                 *)
(***************************************************************************)
\* C12: the visit and departure of a system_message, its subtree skipped,
\* leave every field of the renderer as it was and raise nothing, so the
\* walk goes on, and ends, exactly as on the tree without the subtree
C12_SystemMessageSkipped ==
    [][last'.handler = "visit_system_message" =>
          /\ tr' = tr
          /\ tr'.raised = "none"
          /\ Len(stack') = Len(stack)
          /\ \A i \in 1..Len(stack) : /\ stack'[i].kind = stack[i].kind
                                      /\ stack'[i].rawsource = stack[i].rawsource]_vars

\* C12 witness: a system_message met in the middle of a line, as the first
\* child of a list item, and the walk still able to go on
C12_Witness ==
    /\ last.handler = "visit_system_message"
    /\ Top.kind = "list_item"
    /\ tr.line_length = 1
    /\ tr.output[Len(tr.output)] = <<"*">>
    /\ Walking

\* C13 as stated: a directive rendered and then read back through the
\* capture adapter comes back with the arguments, the options and the
\* content lines it was rendered from
C13_DirectiveRoundTrip ==
    (dir # <<>> /\ dir.given = "node" /\ dir.at \in {"unread", "captured"}) =>
        /\ dir.at = "captured"
        /\ dir.parsed.arguments = dir.node.arguments
        /\ dir.parsed.options = dir.node.options
        /\ dir.parsed.content = dir.node.content

\* C14 as stated: the adapter returns the words of the first line as
\* arguments, stores an option line under the text between its two colons
\* with the rest of the line as value, and returns as content the lines
\* after the options, one separating blank line and the trailing blank
\* lines taken off
C14_AdapterContract ==
    (dir # <<>> /\ dir.given = "block" /\ dir.at = "captured") =>
        LET line == dir.indented[2]
            marked == FieldMarkerLen(line) > 0
            between == SubSeq(line, 2, ClosingColon(line, 2) - 1)
            rest == SubSeq(dir.indented, IF marked THEN 3 ELSE 2, Len(dir.indented))
            body == IF rest # <<>> /\ rest[1] = <<>> THEN Tail(rest) ELSE rest
        IN  /\ dir.parsed.arguments = Tokens(dir.indented[1])
            /\ marked => /\ DOMAIN dir.parsed.options = {between}
                         /\ dir.parsed.options[between]
                                = SubSeq(line, FieldMarkerLen(line) + 1, Len(line))
            /\ ~marked => DOMAIN dir.parsed.options = {}
            /\ dir.parsed.content = TrimEnd(body)

(***************************************************************************)
(* Properties of the blank lines between blocks.  A step of the walk       *)
(* emits a word when it appends one to the output; the newline characters  *)
(* between the last word before the step and the first word the step       *)
(* appends tell how many blank lines separate them: 1 none, 2 one blank    *)
(* line, 3 two.                                                            *)
(***************************************************************************)
RECURSIVE LastWordAt(_, _)
LastWordAt(frags, i) ==
    IF i = 0 THEN 0 ELSE IF IsWord(frags[i]) THEN i ELSE LastWordAt(frags, i - 1)

RECURSIVE FirstWordAt(_, _)
FirstWordAt(frags, i) ==
    IF i > Len(frags) THEN 0 ELSE IF IsWord(frags[i]) THEN i ELSE FirstWordAt(frags, i + 1)

RECURSIVE NewlinesIn(_, _, _)
NewlinesIn(frags, i, j) ==
    IF i > j THEN 0
    ELSE (IF IsNewlines(frags[i]) THEN Len(frags[i]) ELSE 0) + NewlinesIn(frags, i + 1, j)

\* the step appends a word
EmitsWord == tr'.raised = "none" /\ FirstWordAt(tr'.output, Len(tr.output) + 1) > 0

\* the first word the step appends
FirstEmitted == tr'.output[FirstWordAt(tr'.output, Len(tr.output) + 1)]

\* the newline characters between the last word before the step and the
\* first word the step appends
GapBefore ==
    NewlinesIn(tr'.output, LastWordAt(tr.output, Len(tr.output)) + 1,
               FirstWordAt(tr'.output, Len(tr.output) + 1) - 1)

\* emit breaks the line before a word that does not fit, also on an empty line
TooLong(word) == 1 + Len(word) > cfg.max_line_length

\* C15 as stated: the first word after a title at depth d follows a blank
\* line if d <= newline_after_title and follows the underline directly if
\* d > newline_after_title
C15_BlankLineAfterTitle ==
    [][(prev.block = "title" /\ EmitsWord) =>
          IF prev.depth <= cfg.newline_after_title
          THEN GapBefore >= 2
          ELSE GapBefore = 1]_vars

\* the blank lines after a title as the code writes them: after a title at
\* depth d the next block follows exactly one blank line if d <= newline_after_title and none if
\* d > newline_after_title, and in both cases one blank line more when its
\* first word does not fit the line together with a separating space
C15_BlankLineUnlessTooLong ==
    [][(prev.block = "title" /\ EmitsWord) =>
          GapBefore = 1 + (IF prev.depth <= cfg.newline_after_title THEN 1 ELSE 0)
                        + (IF TooLong(FirstEmitted) THEN 1 ELSE 0)]_vars

\* with newline_after_title = -1 a directive whose head does not fit the
\* line follows a title, a blank line between them
C15_Witness ==
    /\ last.handler = "visit_DirectivePlaceholder"
    /\ tr.raised = "none"
    /\ cfg.newline_after_title = -1
    /\ \E i \in 1..Len(tr.output) :
           /\ i + 4 <= Len(tr.output)
           /\ tr.output[i] = <<"-", "-", "-">>
           /\ tr.output[i + 1] = <<NL>>
           /\ tr.output[i + 2] = <<NL>>
           /\ StartsWith(tr.output[i + 4], <<".", ".", SP, "d">>)

C17_DriverRuns ==
    [][cli'.runs = cli.runs + 1 =>
          LET out == format_rst(cli.file)
          IN  /\ out = cli.file => cli'.rc = 0 /\ cli'.file = cli.file
              /\ out # cli.file =>
                     /\ cli'.rc # 0
                     /\ cli'.file = IF ~cli'.check /\ ~cli'.diff THEN out ELSE cli.file
              /\ cli.wrote => cli'.rc = 0]_vars

(***************************************************************************)
(* Properties of the translator's stacks and counters.                     *)
(***************************************************************************)
\* the nodes of the given classes that are entered and not yet left
Open(kinds) == Cardinality({i \in 1..Len(stack) : stack[i].kind \in kinds})

HoldingKinds == {"target", "title", "label"} \cup non_breakable_nodes

\* C18: while the walk runs without error, the hold-space stack is as deep
\* as there are open target, title, label and non-breakable nodes, the
\* indent level counts the open list items and directives, the section depth
\* the open sections, and the bullet stack the open bullet lists.  Leaving a
\* node takes the path of open nodes back to what it was when the node was
\* entered, so a completed visit/depart pair restores all four; none is ever
\* negative; a handler that pops finds its own node's entry; and when the
\* walk has returned all four are empty or 0.
C18_DepthsFollowOpenNodes ==
    tr.raised = "none" =>
        /\ Len(tr.hold_space) = Open(HoldingKinds)
        /\ tr.indent_level = Open({"list_item", "DirectivePlaceholder"})
        /\ tr.section_depth = Open({"section"})
        /\ Len(tr.bullet_char) = Open({"bullet_list"})
        /\ tr.indent_level >= 0
        /\ tr.section_depth >= 0
        /\ returned =>
               /\ tr.hold_space = <<>>
               /\ tr.bullet_char = <<>>
               /\ tr.indent_level = 0
               /\ tr.section_depth = 0

\* a target inside a list item has just been left: the hold-space stack is
\* empty again while the list's indent and bullet are still in place
C18_Witness ==
    /\ tr.raised = "none"
    /\ last.handler = "depart_target"
    /\ stack # <<>>
    /\ Top.kind = "list_item"
    /\ tr.hold_space = <<>>
    /\ tr.indent_level = 1
    /\ Len(tr.bullet_char) = 1

(***************************************************************************)
(* Properties of append.                                                   *)
(***************************************************************************)
\* C19: a call of append while the hold-space stack is not empty leaves the
\* output and the line cursor as they were; without newlines it adds the
\* given words to the innermost hold-space list and to no other, and with one
\* or more newlines it raises and leaves the hold-space lists as they were
C19_HeldAppendFrame ==
    [][(visited' = visited + 1 /\ last'.handler = "append" /\ tr.hold_space # <<>>) =>
          LET n == Len(tr.hold_space)
          IN  /\ tr'.output = tr.output
              /\ tr'.line_length = tr.line_length
              /\ Len(tr'.hold_space) = n
              /\ \A i \in 1..(n - 1) : tr'.hold_space[i] = tr.hold_space[i]
              /\ IF last'.node.newlines = 0
                 THEN /\ tr'.raised = "none"
                      /\ tr'.hold_space[n] = tr.hold_space[n] \o last'.node.text
                 ELSE /\ tr'.raised # "none"
                      /\ tr'.hold_space[n] = tr.hold_space[n]]_vars

\* words have been appended to the inner of two hold-space lists, with
\* output written before the spans were entered
C19_Witness ==
    /\ last.handler = "append"
    /\ last.node.newlines = 0
    /\ last.node.text # <<>>
    /\ tr.raised = "none"
    /\ Len(tr.hold_space) = 2
    /\ tr.hold_space[1] # <<>>
    /\ tr.hold_space[2] # <<>>
    /\ tr.output # <<>>

(***************************************************************************)
(* Properties of the directive step of the pre-normaliser.                 *)
(***************************************************************************)
\* a line that begins with the directive marker starts at s[i]
MarkerLineAt(s, i) ==
    /\ i + 2 <= Len(s)
    /\ s[i] = "."
    /\ s[i + 1] = "."
    /\ s[i + 2] = SP

\* s from s[i] on, with one newline added before each line that begins with
\* the marker and follows a line that is not blank
RECURSIVE BeforeMarkerLines(_, _)
BeforeMarkerLines(s, i) ==
    IF i > Len(s) THEN <<>>
    ELSE IF i + 1 <= Len(s) /\ s[i] # NL /\ s[i + 1] = NL /\ MarkerLineAt(s, i + 2)
         THEN <<s[i], NL>> \o BeforeMarkerLines(s, i + 1)
         ELSE <<s[i]>> \o BeforeMarkerLines(s, i + 1)

\* C20 as stated: the directive step adds one newline before each line that
\* begins with '.. ' and is not preceded by a blank line, and changes nothing
\* else
C20_OnlyBeforeMarkerLines ==
    [][(nstage = "bullet" /\ nstage' = "directive") =>
          ntext' = BeforeMarkerLines(ntext, 1)]_vars

(***************************************************************************)
(* Properties of fix_heading_line_length.                                  *)
(***************************************************************************)
\* the index of the newline that ends the line starting at s[i], or Len(s) + 1
RECURSIVE LineEnd(_, _)
LineEnd(s, i) == IF i <= Len(s) /\ s[i] # NL THEN LineEnd(s, i + 1) ELSE i

\* a line of three or more repetitions of one heading character
OneCharHeading(line, chars) ==
    /\ Len(line) >= 3
    /\ line[1] \in chars
    /\ \A k \in 1..Len(line) : line[k] = line[1]

\* s from the line starting at s[i] on, each such line made four characters long
RECURSIVE FourCharHeadings(_, _, _)
FourCharHeadings(s, i, chars) ==
    IF i > Len(s) THEN <<>>
    ELSE LET e == LineEnd(s, i)
             line == SubSeq(s, i, e - 1)
             fixed == IF OneCharHeading(line, chars) THEN Rep(line[1], 4) ELSE line
         IN  IF e > Len(s) THEN fixed
             ELSE fixed \o <<NL>> \o FourCharHeadings(s, e + 1, chars)

\* C21 as stated: the heading step replaces each line of three or more
\* repetitions of one heading character by four of that character and leaves
\* every other line as it was, a line that mixes heading characters included
C21_OnlyOneCharHeadings ==
    [][(nstage = "directive" /\ nstage' = "input") =>
          ntext' = FourCharHeadings(ntext, 1, TitleChars(cfg))]_vars

(***************************************************************************)
(* Properties of the line cursor and of word wrapping.                     *)
(***************************************************************************)
\* the number of characters of s after its last newline
RECURSIVE ColumnAfter(_)
ColumnAfter(s) ==
    IF s = <<>> \/ s[Len(s)] = NL THEN 0
    ELSE 1 + ColumnAfter(SubSeq(s, 1, Len(s) - 1))

\* C22 as stated: outside non-breakable spans the line cursor equals the
\* number of characters written to the output since the last newline, also
\* after a word starting with ',' or '.' was appended without a space
C22_CursorIsColumn ==
    (tr.raised = "none" /\ tr.hold_space = <<>>) =>
        tr.line_length = ColumnAfter(Flatten(tr.output))

\* C23 as stated: a word emitted while the line cursor is 0 is never preceded
\* by a forced line break, whatever its length, so that wrapping creates no
\* empty line
C23_NoBreakAtLineStart ==
    [][(/\ visited' = visited + 1
        /\ last'.handler = "append"
        /\ last'.node.text # <<>>
        /\ tr.hold_space = <<>>
        /\ tr.line_length = 0) =>
          ~IsNewlines(tr'.output[Len(tr.output) + 1])]_vars

(***************************************************************************)
(* Properties of bullet lists.  A list is nested at level n when n bullet  *)
(* lists are open: n = Len(tr.bullet_char).                                *)
(***************************************************************************)
\* the step is visit_list_item: the bullet of an item is written
WritesBullet ==
    /\ visited' = visited + 1
    /\ last'.handler = "visit_list_item"
    /\ tr'.raised = "none"

\* the bullet starts a line, after 2 * (n - 1) spaces; no blank line
\* separates it from the item before it in the same list
BulletLine ==
    LET k == Len(tr.output)
        n == Len(tr.bullet_char)
    IN  /\ Len(tr'.output) = k + 2
        /\ tr'.output[k + 1] = Rep(SP, 2 * (n - 1))
        /\ tr'.output[k + 2] = tr.bullet_char[n]
        /\ Top.kids => GapBefore = 1

\* the output ends with the bullet of the item just entered
AfterBullet ==
    /\ tr.output # <<>>
    /\ tr.output[Len(tr.output)] \in Bullets
    /\ tr.line_length # 0

\* a word appended at index i of the output starts a line
StartsLine(frags, i) ==
    /\ i >= 2
    /\ IsWord(frags[i])
    /\ ~IsWord(frags[i - 1])
    /\ ~IsNewlines(frags[i - 1])
    /\ frags[i - 1] # <<SP>>

\* C24 as stated: the first line of an item of a list at level n holds
\* 2 * (n - 1) spaces, the bullet, one space and the item's first word,
\* whatever that word is; every further line of the item starts with 2 * n
\* spaces; and no blank line separates the items of one list
C24_ItemLines ==
    [][/\ WritesBullet => BulletLine
       /\ (EmitsWord /\ AfterBullet /\ ~WritesBullet) =>
              LET k == Len(tr.output)
              IN  /\ tr'.output[k + 1] = <<SP>>
                  /\ FirstWordAt(tr'.output, k + 1) = k + 2
       /\ (/\ EmitsWord
           /\ ~AfterBullet
           /\ tr.indent_level >= 1
           /\ last'.handler \notin {"visit_list_item", "visit_DirectivePlaceholder"}) =>
              \A i \in (Len(tr.output) + 1)..Len(tr'.output) :
                  StartsLine(tr'.output, i) =>
                      tr'.output[i - 1] = Rep(SP, 2 * tr.indent_level)]_vars

\* C25: visit_bullet_list appends exactly one newline when the list is
\* nested in another list or a blank line is pending, both together
\* included, and nothing otherwise; the first item of the list clears the
\* pending flag, its bullet is written on the line the list has started
\* without a further newline, and at most one blank line separates it from
\* the word before it
C25_OneNewlineBeforeList ==
    [][/\ (visited' = visited + 1 /\ last'.handler = "visit_bullet_list") =>
              /\ tr'.raised = "none"
              /\ tr'.output =
                     IF Len(tr.bullet_char) > 0 \/ tr.need_newline_before_paragraph_start
                     THEN Append(tr.output, <<NL>>)
                     ELSE tr.output
       /\ (WritesBullet /\ last.handler = "visit_bullet_list") =>
              /\ ~tr'.need_newline_before_paragraph_start
              /\ tr.line_length = 0 =>
                     NewlinesIn(tr'.output, Len(tr.output) + 1, Len(tr'.output)) = 0
              /\ LastWordAt(tr.output, Len(tr.output)) > 0 => GapBefore <= 2]_vars

\* a list nested in an item has been entered after the item's paragraph: the
\* list is nested and a blank line is pending, and one newline follows the
\* one that ended the paragraph
C25_Witness ==
    /\ last.handler = "visit_bullet_list"
    /\ tr.raised = "none"
    /\ Len(tr.bullet_char) = 2
    /\ tr.need_newline_before_paragraph_start
    /\ Len(tr.output) >= 3
    /\ tr.output[Len(tr.output)] = <<NL>>
    /\ tr.output[Len(tr.output) - 1] = <<NL>>
    /\ IsWord(tr.output[Len(tr.output) - 2])

(***************************************************************************)
(* Properties of the directive-capture patch in one thread.                *)
(***************************************************************************)
\* C26: before a call and after it, whether it returned or raised, the
\* registry and the block parser are what they were before the call; the
\* patch is in place only between its installation and the restore
C26_PatchOnlyDuringCall ==
    /\ thr[1].pc \in {"start", "done", "failed"} => glob = cli.before
    /\ (glob._directives = "MonkeyPatchedDirectiveHandler"
          \/ glob.parse_directive_block = "forgiving_parse_directive_block") =>
           thr[1].pc \in {"installed_handler", "installed_parser", "looked_up",
                          "parsed", "rendered", "raised", "restored_handler",
                          "unwinding"}

\* a later call has raised while rendering a captured directive, and the
\* caller's own registry and parser are back in place
C26_Witness ==
    /\ thr[1].pc = "failed"
    /\ thr[1].parsed_by = "forgiving_parse_directive_block"
    /\ cli.call = 2
    /\ glob = cli.before
    /\ glob._directives = "registry of the caller"
    /\ glob.parse_directive_block = "parser of the caller"

====
